---- MODULE Spec2Model ----
(***************************************************************************)
(* GeoPackage (index.js): a tile store over one sqlite3 connection.        *)
(*                                                                         *)
(* The state is the database file (which tables exist, the rows of each),  *)
(* the instance's _table flag, and the async call in progress: the         *)
(* statement it has in flight, the errors it has logged, its result.       *)
(* One step of a call is the completion of its in-flight statement: the    *)
(* engine runs it, the callback logs an error if there is one and settles  *)
(* the promise, and the async function resumes and issues its next         *)
(* statement, or returns. A caller that does not await a call can start a  *)
(* second one; the statements of the two then complete in any order.       *)
(*                                                                         *)
(* Numbers of metres are kept in centimetres (-20037508.34 m is            *)
(* -2003750834). The last_change column holds the symbolic value "now";    *)
(* the pixel sizes of gpkg_tile_matrix are left out.                       *)
(***************************************************************************)
EXTENDS Integers, Sequences, FiniteSets, Bags, TLC

VARIABLES
    table_,     \* this._table: the schema has been built by this instance
    exists,     \* the tables that exist in the database file
    rows,       \* the rows of each table, a bag per table
    call,       \* the call in progress, or the one that just settled
    last,       \* the call that settled before `call` started
    faults,     \* how many engine faults have been injected
    other,      \* a call started without awaiting `call`
    overlaps    \* how many calls have been started that way

vars == <<table_, exists, rows, call, last, faults, other, overlaps>>

----------------------------------------------------------------------------
(* Bounds of the model *)

\* tiles holds at most this many rows
MaxRows == 2

\* at most this many statements fail for a reason outside the model
MaxFaults == 1

\* at most this many calls are started without awaiting the call in progress
MaxOverlaps == 1

\* the tile triples [x, y, z] and the image buffers callers pass
Tiles == {<<0, 0, 0>>, <<1, 0, 1>>}
Images == {"png1", "png2"}

----------------------------------------------------------------------------
(* JavaScript values *)

\* a property that is absent from the metadata object
NoName == "undefined"
NoZoom == -1
NoBounds == <<>>

\* v || d for strings: undefined and '' are falsy
OrStr(v, d) == IF v \in {NoName, ""} THEN d ELSE v

\* v || d for numbers: undefined and 0 are falsy
OrNum(v, d) == IF v \in {NoZoom, 0} THEN d ELSE v

\* v || d for arrays: only undefined is falsy
OrArr(v, d) == IF v = NoBounds THEN d ELSE v

\* the metadata objects callers pass to update()
NoMetadata ==
    [name |-> NoName, description |-> NoName, minzoom |-> NoZoom,
     maxzoom |-> NoZoom, bounds |-> NoBounds]

TestMetadata ==
    [name |-> "tiles", description |-> "OGC GeoPackage", minzoom |-> 0,
     maxzoom |-> 2, bounds |-> <<-180, -85, 180, 85>>]

FooMetadata ==
    [name |-> "Foo", description |-> "Bar", minzoom |-> 1,
     maxzoom |-> 3, bounds |-> <<-110, -40, 95, 50>>]

ZoomZeroMetadata == [NoMetadata EXCEPT !.maxzoom = 0]

Metadatas == {NoMetadata, TestMetadata, FooMetadata, ZoomZeroMetadata}

\* the default of maxzoom
DefaultMaxZoom == 19

\* the width and height of a tile in pixels
TileSize == 256

\* the extent of the Web Mercator plane, in centimetres
OriginShift == 2003750834

\* mercator.range(start, stop): start, start + 1, ..., stop - 1
range(start, stop) == [i \in 1..(stop - start) |-> start + i - 1]

\* array[index], indices from 0
At(array, index) == array[index + 1]

\* mercator.bboxToMeters(bbox), in centimetres, on the boxes of Metadatas
LngToMeters(lng) ==
    CASE lng = -180 -> -2003750834
      [] lng = 180 -> 2003750834
      [] lng = -110 -> -1224514399
      [] lng = 95 -> 1057535163

LatToMeters(lat) ==
    CASE lat = -85 -> -1997186888
      [] lat = 85 -> 1997186888
      [] lat = -40 -> -486594228
      [] lat = 50 -> 644627584

bboxToMeters(bbox) ==
    <<LngToMeters(bbox[1]), LatToMeters(bbox[2]),
      LngToMeters(bbox[3]), LatToMeters(bbox[4])>>

----------------------------------------------------------------------------
(* The schema *)

\* schema.TABLE, in the order tables() creates them
TableNames ==
    <<"gpkg_contents", "gpkg_spatial_ref_sys", "gpkg_tile_matrix",
      "gpkg_tile_matrix_set", "tiles">>

AllTables == {TableNames[i] : i \in DOMAIN TableNames}

\* the tables with a primary key; tiles has none on (x, y, z)
Keyed ==
    {"gpkg_contents", "gpkg_spatial_ref_sys", "gpkg_tile_matrix",
     "gpkg_tile_matrix_set"}

\* the primary key of a row
KeyOf(table, row) ==
    CASE table = "gpkg_spatial_ref_sys" -> <<row.srs_id>>
      [] table = "gpkg_contents" -> <<row.table_name>>
      [] table = "gpkg_tile_matrix_set" -> <<row.table_name>>
      [] table = "gpkg_tile_matrix" -> <<row.table_name, row.zoom_level>>

\* a statement: what it does, to which table, with which bound values, and
\* the helper that runs it
Stmt(kind, table, data, via) ==
    [kind |-> kind, table |-> table, data |-> data, via |-> via]

----------------------------------------------------------------------------
(* The engine: db.run and db.get *)

\* the row db.get hands to its callback
NoRow == [defined |-> FALSE, tile_data |-> "undefined"]
Row(data) == [defined |-> TRUE, tile_data |-> data]

\* WHERE tile_column=? AND tile_row=? AND zoom_level=?
Matches(row, tile) ==
    /\ row.tile_column = tile[1]
    /\ row.tile_row = tile[2]
    /\ row.zoom_level = tile[3]

\* the rows of a bag that satisfy the WHERE clause
Matching(bag, tile) == {r \in BagToSet(bag) : Matches(r, tile)}

\* the bag without the rows that satisfy the WHERE clause
Without(bag, tile) ==
    LET keep == {r \in BagToSet(bag) : ~Matches(r, tile)}
    IN  [r \in keep |-> bag[r]]

\* how many rows satisfy the WHERE clause
Count(bag, tile) == BagCardinality([r \in Matching(bag, tile) |-> bag[r]])

\* one more copy of a row
Plus(bag, row) == bag (+) SetToBag({row})

\* what a statement can do to the database, and what its callback receives
Outcome(ex, rw, error, row) ==
    [exists |-> ex, rows |-> rw, error |-> error, row |-> row]

Outcomes(stmt, fault) ==
    LET t == stmt.table
        fail == {Outcome(exists, rows, TRUE, NoRow)}
    IN  IF fault THEN fail
        ELSE IF stmt.kind = "create"
          THEN {Outcome(exists \cup {t}, rows, FALSE, NoRow)}
        ELSE IF t \notin exists THEN fail
        ELSE IF stmt.kind = "delete_all"
          THEN {Outcome(exists, [rows EXCEPT ![t] = EmptyBag], FALSE, NoRow)}
        ELSE IF stmt.kind = "insert"
          THEN IF /\ t \in Keyed
                  /\ \E r \in BagToSet(rows[t]) :
                        KeyOf(t, r) = KeyOf(t, stmt.data)
               THEN fail
               ELSE {Outcome(exists,
                             [rows EXCEPT ![t] = Plus(rows[t], stmt.data)],
                             FALSE, NoRow)}
        ELSE IF stmt.kind = "delete_where"
          THEN {Outcome(exists,
                        [rows EXCEPT ![t] = Without(rows[t], stmt.data)],
                        FALSE, NoRow)}
        ELSE \* select: one of the matching rows, in no stated order
          IF Matching(rows[t], stmt.data) = {}
          THEN {Outcome(exists, rows, FALSE, NoRow)}
          ELSE {Outcome(exists, rows, FALSE, Row(r.tile_data)) :
                    r \in Matching(rows[t], stmt.data)}

----------------------------------------------------------------------------
(* The promise helpers *)

\* how a promise settles: resolve(status) for the run helpers, resolve(row)
\* for getSQL
Settled(how, status, row) == [how |-> how, status |-> status, row |-> row]

\* getSQL: logs the error, resolves with the row
getSQL(error, row) == Settled("resolve", TRUE, row)

\* runSQL: logs the error, resolves with true
runSQLRejects(error, row) ==
    IF error THEN Settled("reject", FALSE, NoRow)
    ELSE Settled("resolve", TRUE, NoRow)

runSQL(error, row) == Settled("resolve", TRUE, NoRow)

\* runStatement: logs the error, resolves with true
runStatementRejects(error, row) ==
    IF error THEN Settled("reject", FALSE, NoRow)
    ELSE Settled("resolve", TRUE, NoRow)

runStatement(error, row) == Settled("resolve", TRUE, NoRow)

Settle(via, error, row) ==
    CASE via = "getSQL" -> getSQL(error, row)
      [] via = "runSQL" -> runSQL(error, row)
      [] via = "runStatement" -> runStatement(error, row)

----------------------------------------------------------------------------
(* update(): the statements of one call *)

\* the hard-coded boundsMeters, in centimetres
boundsMeters == <<-OriginShift, -OriginShift, OriginShift, OriginShift>>

\* the four rows of gpkg_spatial_ref_sys
SrsRow(name, id, organization, coordsys) ==
    [srs_name |-> name, srs_id |-> id, organization |-> organization,
     organization_coordsys_id |-> coordsys]

SrsRowsRepeated ==
    <<SrsRow("Undefined Cartesian Coordinate Reference System", -1, "NONE", -1),
      SrsRow("Undefined Geographic Coordinate Reference System", 0, "NONE", -1),
      SrsRow("World Geodetic System (WGS) 1984", 1, "EPSG", 4326),
      SrsRow("Web Mercator", 1, "EPSG", 3857)>>

SrsRows ==
    <<SrsRow("Undefined Cartesian Coordinate Reference System", -1, "NONE", -1),
      SrsRow("Undefined Geographic Coordinate Reference System", 0, "NONE", -1),
      SrsRow("World Geodetic System (WGS) 1984", 1, "EPSG", 4326),
      SrsRow("Web Mercator", 2, "EPSG", 3857)>>

\* DELETE FROM gpkg_spatial_ref_sys, then the four INSERTs
SrsBlock ==
    <<Stmt("delete_all", "gpkg_spatial_ref_sys", <<>>, "runSQL")>>
    \o [i \in 1..Len(SrsRows) |->
          Stmt("insert", "gpkg_spatial_ref_sys", SrsRows[i], "runStatement")]

\* DELETE FROM gpkg_contents, then the INSERT of the one row
ContentsRow(name, description, lastChange, meters) ==
    [table_name |-> name, data_type |-> "tiles", identifier |-> name,
     description |-> description, last_change |-> lastChange,
     min_x |-> meters[1], min_y |-> meters[2],
     max_x |-> meters[3], max_y |-> meters[4], srs_id |-> 2]

ContentsBlockInsertFirst(name, description, lastChange, meters) ==
    <<Stmt("insert", "gpkg_contents",
           ContentsRow(name, description, lastChange, meters),
           "runStatement"),
      Stmt("delete_all", "gpkg_contents", <<>>, "runSQL")>>

ContentsBlock(name, description, lastChange, meters) ==
    <<Stmt("delete_all", "gpkg_contents", <<>>, "runSQL"),
      Stmt("insert", "gpkg_contents",
           ContentsRow(name, description, lastChange, meters),
           "runStatement")>>

\* Math.pow(2, index)
matrixDoubles(index) == 2 * index

matrix(index) == 2 ^ index

\* DELETE FROM gpkg_tile_matrix, then one INSERT per element of zooms:
\* `for (const index of zooms)` hands out the elements, zooms[index] reads
\* the array at that element
TileMatrixRow(name, zoom, m) ==
    [table_name |-> name, zoom_level |-> zoom, matrix_width |-> m,
     matrix_height |-> m, tile_width |-> TileSize, tile_height |-> TileSize]

TileMatrixBlock(name, maxzoom) ==
    LET zooms == range(0, maxzoom + 1)
    IN  <<Stmt("delete_all", "gpkg_tile_matrix", <<>>, "runSQL")>>
        \o [i \in 1..Len(zooms) |->
              LET index == zooms[i]
                  zoom == At(zooms, index)
              IN  Stmt("insert", "gpkg_tile_matrix",
                       TileMatrixRow(name, zoom, matrix(index)),
                       "runStatement")]

\* DELETE FROM gpkg_tile_matrix_set, then the INSERT of the one row
TileMatrixSetRow(name, meters) ==
    [table_name |-> name, srs_id |-> 2,
     min_x |-> meters[1], min_y |-> meters[2],
     max_x |-> meters[3], max_y |-> meters[4]]

TileMatrixSetBlockOnTiles(name, meters) ==
    <<Stmt("delete_all", "tiles", <<>>, "runSQL"),
      Stmt("insert", "gpkg_tile_matrix_set", TileMatrixSetRow(name, meters),
           "runStatement")>>

TileMatrixSetBlock(name, meters) ==
    <<Stmt("delete_all", "gpkg_tile_matrix_set", <<>>, "runSQL"),
      Stmt("insert", "gpkg_tile_matrix_set", TileMatrixSetRow(name, meters),
           "runStatement")>>

\* the metadata update() resolves and writes
Resolved(metadata) ==
    [name |-> OrStr(metadata.name, "tiles"),
     description |-> OrStr(metadata.description, "OGC GeoPackage"),
     boundsMeters |-> boundsMeters,
     lastChange |-> "now",
     maxzoom |-> OrNum(metadata.maxzoom, DefaultMaxZoom)]

update(metadata) ==
    LET m == Resolved(metadata)
    IN  SrsBlock
        \o ContentsBlock(m.name, m.description, m.lastChange, m.boundsMeters)
        \o TileMatrixBlock(m.name, m.maxzoom)
        \o TileMatrixSetBlock(m.name, m.boundsMeters)

----------------------------------------------------------------------------
(* tables(), save(), delete(), findOne(): the statements of one call *)

tables ==
    [i \in 1..Len(TableNames) |-> Stmt("create", TableNames[i], <<>>, "runSQL")]

\* const [x, y, z] = tile; data = [x, y, z, image], bound to
\* (tile_column, tile_row, zoom_level, tile_data)
TileRow(x, y, z, image) ==
    [tile_column |-> x, tile_row |-> y, zoom_level |-> z, tile_data |-> image]

saveSwapped(tile, image) ==
    <<Stmt("insert", "tiles", TileRow(tile[2], tile[1], tile[3], image),
           "runSQL")>>

saveReplaces(tile, image) ==
    <<Stmt("delete_where", "tiles", tile, "runSQL"),
      Stmt("insert", "tiles", TileRow(tile[1], tile[2], tile[3], image),
           "runSQL")>>

save(tile, image) ==
    <<Stmt("insert", "tiles", TileRow(tile[1], tile[2], tile[3], image),
           "runSQL")>>

deleteSwapped(tile) ==
    <<Stmt("delete_where", "tiles", <<tile[2], tile[1], tile[3]>>, "runSQL")>>

deleteEverything(tile) == <<Stmt("delete_all", "tiles", <<>>, "runSQL")>>

delete(tile) == <<Stmt("delete_where", "tiles", tile, "runSQL")>>

findOne(tile) == <<Stmt("select", "tiles", tile, "getSQL")>>

----------------------------------------------------------------------------
(* Calls *)

Ops == {"tables", "update", "save", "delete", "findOne"}

\* what a call resolves to
NoResult ==
    [type |-> "none", bool |-> FALSE, data |-> "undefined",
     meta |-> Resolved(NoMetadata)]
Bool(b) == [NoResult EXCEPT !.type = "boolean", !.bool = b]
Undefined == [NoResult EXCEPT !.type = "undefined"]
Buffer(data) == [NoResult EXCEPT !.type = "buffer", !.data = data]
Meta(m) == [NoResult EXCEPT !.type = "metadata", !.meta = m]

NoTile == <<-1, -1, -1>>

\* no call yet. A call is its arguments, the statement it has in flight
\* (phase, idx), the positions whose error it logged (errs) and its result;
\* for the properties it also records how many statements it has issued,
\* whether it ran the schema check (built) and how many rows of tiles
\* matched its tile when it started (had)
Idle ==
    [op |-> "none", tile |-> NoTile, image |-> "undefined",
     metadata |-> NoMetadata, phase |-> "idle", idx |-> 0,
     errs |-> {}, issued |-> 0, built |-> FALSE, had |-> 0,
     result |-> NoResult]

\* the statements of the body of a call, after the schema check
Body(c) ==
    CASE c.op = "update" -> update(c.metadata)
      [] c.op = "save" -> save(c.tile, c.image)
      [] c.op = "delete" -> delete(c.tile)
      [] c.op = "findOne" -> findOne(c.tile)
      [] c.op = "tables" -> <<>>

\* the statement a call has in flight
InFlight(c) == IF c.phase = "tables" THEN tables[c.idx] ELSE Body(c)[c.idx]

\* `return true` of tables()
tablesReturnsNothing == Undefined

tablesReturn == Bool(TRUE)

\* the value the async function returns after its last statement
Return(c, value) ==
    CASE c.op = "tables" -> tablesReturn
      [] c.op = "update" -> Meta(Resolved(c.metadata))
      [] c.op = "save" -> Bool(TRUE)
      [] c.op = "delete" -> Bool(TRUE)
      [] c.op = "findOne" ->
            IF value.row.defined THEN Buffer(value.row.tile_data)
            ELSE Undefined

EnterUnchecked(c, flag) ==
    IF c.op = "tables"
    THEN [c EXCEPT !.phase = "done", !.result = tablesReturn]
    ELSE [c EXCEPT !.phase = "body", !.idx = 1, !.issued = 1]

\* a call runs up to its first await: tables() returns at once when the
\* flag is set, the others skip the schema check
Enter(c, flag) ==
    IF flag
    THEN IF c.op = "tables"
         THEN [c EXCEPT !.phase = "done", !.result = tablesReturn]
         ELSE [c EXCEPT !.phase = "body", !.idx = 1, !.issued = 1]
    ELSE [c EXCEPT !.phase = "tables", !.idx = 1, !.issued = 1,
                   !.built = TRUE]

\* a call resumes after its in-flight statement has settled with `value`
Resume(c, value) ==
    IF c.phase = "tables" /\ c.idx < Len(tables)
      THEN [c EXCEPT !.idx = c.idx + 1, !.issued = c.issued + 1]
    ELSE IF c.phase = "tables" /\ c.op = "tables"
      THEN [c EXCEPT !.phase = "done", !.idx = 0, !.result = tablesReturn]
    ELSE IF c.phase = "tables"
      THEN [c EXCEPT !.phase = "body", !.idx = 1, !.issued = c.issued + 1]
    ELSE IF c.idx < Len(Body(c))
      THEN [c EXCEPT !.idx = c.idx + 1, !.issued = c.issued + 1]
    ELSE [c EXCEPT !.phase = "done", !.idx = 0, !.result = Return(c, value)]

----------------------------------------------------------------------------
(* Actions *)

Settledp(c) == c.phase \in {"idle", "done", "rejected"}

Init ==
    /\ table_ = FALSE
    /\ exists = {}
    /\ rows = [t \in AllTables |-> EmptyBag]
    /\ call = Idle
    /\ last = Idle
    /\ faults = 0
    /\ other = Idle
    /\ overlaps = 0

\* what the caller keeps of a settled call
Summary(c) == [c EXCEPT !.idx = 0, !.errs = {}, !.issued = 0, !.built = FALSE]

\* the rows a call may still add to tiles
Pending(c) == IF c.op = "save" /\ ~Settledp(c) THEN 1 ELSE 0

\* the call as the caller makes it
Called(op, tile, image, metadata) ==
    [Idle EXCEPT !.op = op, !.tile = tile, !.image = image,
                 !.metadata = metadata, !.had = Count(rows["tiles"], tile)]

\* the caller starts a call once the previous one has settled
Start(op, tile, image, metadata) ==
    /\ Settledp(call)
    /\ op = "save" => BagCardinality(rows["tiles"]) + Pending(other) < MaxRows
    /\ last' = Summary(call)
    /\ call' = Enter(Called(op, tile, image, metadata), table_)
    /\ UNCHANGED <<table_, exists, rows, faults, other, overlaps>>

StartTables == Start("tables", NoTile, "undefined", NoMetadata)

StartUpdate(Ms) == \E m \in Ms : Start("update", NoTile, "undefined", m)

StartSave(Ts, Is) == \E t \in Ts, i \in Is : Start("save", t, i, NoMetadata)

StartDelete(Ts) == \E t \in Ts : Start("delete", t, "undefined", NoMetadata)

StartFindOne(Ts) == \E t \in Ts : Start("findOne", t, "undefined", NoMetadata)

\* how the promise of the in-flight statement of a call settles, the
\* engine having run the statement with outcome o
Settling(c, o) == Settle(InFlight(c).via, o.error, o.row)

\* the call once its in-flight statement has completed with outcome o: the
\* callback logs the error and settles the promise, the call resumes
After(c, o) ==
    LET s == Settling(c, o)
        logged == [c EXCEPT !.errs =
                      IF o.error THEN @ \cup {<<c.phase, c.idx>>} ELSE @]
    IN  CASE s.how = "reject" -> [logged EXCEPT !.phase = "rejected"]
          [] s.how = "pending" -> [logged EXCEPT !.phase = "pending"]
          [] s.how = "resolve" -> Resume(logged, s)

\* this._table = true, the statement of tables() after its five awaits
setsFlagAtOnce(c) == c.phase = "tables"

setsFlag(c) == c.phase = "tables" /\ c.idx = Len(tables)

\* the flag once the in-flight statement of a call has completed
FlagAfter(c, o) ==
    IF Settling(c, o).how = "resolve" /\ setsFlag(c) THEN TRUE ELSE table_

\* the in-flight statement of the call completes
Complete(fault) ==
    /\ call.phase \in {"tables", "body"}
    /\ fault => faults < MaxFaults
    /\ \E o \in Outcomes(InFlight(call), fault) :
          /\ exists' = o.exists
          /\ rows' = o.rows
          /\ call' = After(call, o)
          /\ table_' = FlagAfter(call, o)
    /\ faults' = IF fault THEN faults + 1 ELSE faults
    /\ UNCHANGED <<last, other, overlaps>>

Step == Complete(FALSE)

Fault == Complete(TRUE)

Next ==
    \/ StartTables
    \/ StartUpdate(Metadatas)
    \/ StartSave(Tiles, Images)
    \/ StartDelete(Tiles)
    \/ StartFindOne(Tiles)
    \/ Step

Spec == Init /\ [][Next]_vars

\* the same program on an engine whose statements can also fail for reasons
\* outside the model (an I/O error, a locked file), on fewer inputs
FaultTiles == {<<0, 0, 0>>}
FaultImages == {"png1"}
FaultMetadatas == {TestMetadata, FooMetadata}

NextFault ==
    \/ StartTables
    \/ StartUpdate(FaultMetadatas)
    \/ StartSave(FaultTiles, FaultImages)
    \/ StartDelete(FaultTiles)
    \/ StartFindOne(FaultTiles)
    \/ Step
    \/ Fault

SpecFault == Init /\ [][NextFault]_vars

\* the caller starts a call without awaiting the call in progress
StartOther(op, tile, image, metadata) ==
    /\ Settledp(other)
    /\ overlaps < MaxOverlaps
    /\ op = "save" => BagCardinality(rows["tiles"]) + Pending(call) < MaxRows
    /\ other' = Enter(Called(op, tile, image, metadata), table_)
    /\ overlaps' = overlaps + 1
    /\ UNCHANGED <<table_, exists, rows, call, last, faults>>

OtherTables == StartOther("tables", NoTile, "undefined", NoMetadata)

OtherUpdate(Ms) == \E m \in Ms : StartOther("update", NoTile, "undefined", m)

OtherSave(Ts, Is) ==
    \E t \in Ts, i \in Is : StartOther("save", t, i, NoMetadata)

OtherDelete(Ts) ==
    \E t \in Ts : StartOther("delete", t, "undefined", NoMetadata)

OtherFindOne(Ts) ==
    \E t \in Ts : StartOther("findOne", t, "undefined", NoMetadata)

\* the in-flight statement of that call completes
StepOther ==
    /\ other.phase \in {"tables", "body"}
    /\ \E o \in Outcomes(InFlight(other), FALSE) :
          /\ exists' = o.exists
          /\ rows' = o.rows
          /\ other' = After(other, o)
          /\ table_' = FlagAfter(other, o)
    /\ UNCHANGED <<call, last, faults, overlaps>>

\* the same program with calls that overlap: the caller makes a first call
\* and starts others without awaiting it, and the statements of the calls
\* in progress complete in any order, each call awaiting its own
OverlapTiles == {<<0, 0, 0>>}
OverlapImages == {"png1"}
FirstMetadatas == {TestMetadata}
OtherMetadatas == {FooMetadata}

NextOverlap ==
    \/ call = Idle /\ StartTables
    \/ call = Idle /\ StartUpdate(FirstMetadatas)
    \/ call = Idle /\ StartSave(OverlapTiles, OverlapImages)
    \/ Step
    \/ OtherTables
    \/ OtherUpdate(OtherMetadatas)
    \/ OtherSave(OverlapTiles, OverlapImages)
    \/ OtherDelete(OverlapTiles)
    \/ OtherFindOne(OverlapTiles)
    \/ StepOther

SpecOverlap == Init /\ [][NextOverlap]_vars

----------------------------------------------------------------------------
(* Properties *)

Done(c) == c.phase = "done"

\* `call` is findOne(t), resolved, and the call before it was op(t), resolved
Followed(op) ==
    /\ last.op = op
    /\ Done(last)
    /\ call.op = "findOne"
    /\ Done(call)
    /\ call.tile = last.tile

\* C1 as stated: save([x,y,z], b) followed by findOne([x,y,z]) resolves to b,
\* in every state the calls can reach.
C1_RoundTripAlways ==
    Followed("save") => call.result = Buffer(last.image)

\* C1 amended: save([x,y,z], b) followed by findOne([x,y,z]) resolves to b
\* when every row stored under (x,y,z) carries b, that is when no row with
\* that triple and another payload was in tiles before the save.
C1_RoundTripWithoutOlderRow ==
    (/\ Followed("save")
     /\ \A r \in Matching(rows["tiles"], call.tile) : r.tile_data = last.image)
    => call.result = Buffer(last.image)

\* C1 witness: a save onto a triple that already had a row with the same
\* payload, then a findOne that resolved to that payload.
C1_Witness ==
    /\ Followed("save")
    /\ last.had = 1
    /\ Count(rows["tiles"], call.tile) = 2
    /\ call.result = Buffer(last.image)

\* C2: delete([x,y,z]) followed by findOne([x,y,z]) resolves to undefined,
\* however many rows were stored under the triple.
C2_DeleteThenFindOne ==
    Followed("delete") => call.result = Undefined

\* C2 witness: the delete found two rows under the triple, and the findOne
\* after it resolved to undefined.
C2_Witness ==
    /\ Followed("delete")
    /\ last.had = 2
    /\ call.result = Undefined

\* C3: every tables() resolves true and leaves all five tables in place; a
\* tables() after the first logs no error, and no step of it changes which
\* tables exist or what they hold.
C3_TablesResolved ==
    (call.op = "tables" /\ Done(call))
    => /\ call.result = Bool(TRUE)
       /\ exists = AllTables
       /\ call.errs = {}

\* C3, with the frame: the property above always holds, and no step of a
\* tables() made once the flag is set changes the tables or their rows.
C3_TablesIdempotent ==
    /\ []C3_TablesResolved
    /\ [][(table_ /\ call'.op = "tables")
             => (exists' = exists /\ rows' = rows)]_vars

\* C3 witness: a second tables() has resolved after a first one, over tables
\* that hold rows.
C3_Witness ==
    /\ last.op = "tables"
    /\ Done(last)
    /\ call.op = "tables"
    /\ Done(call)
    /\ ~call.built
    /\ rows["tiles"] # EmptyBag

\* the rows of a table, as a set
RowsOf(table) == BagToSet(rows[table])

\* the zoom range the caller asked for: minzoom and maxzoom when supplied,
\* 0 and 19 when omitted
AskedMin(metadata) ==
    IF metadata.minzoom = NoZoom THEN 0 ELSE metadata.minzoom

AskedMax(metadata) ==
    IF metadata.maxzoom = NoZoom THEN DefaultMaxZoom ELSE metadata.maxzoom

\* C4: after update(options) the zoom levels of gpkg_tile_matrix are exactly
\* minzoom..maxzoom, one row per zoom (0 and 19 for the omitted ends).
C4_ZoomRangeAsAsked ==
    (call.op = "update" /\ Done(call))
    => /\ {r.zoom_level : r \in RowsOf("gpkg_tile_matrix")}
            = AskedMin(call.metadata)..AskedMax(call.metadata)
       /\ BagCardinality(rows["gpkg_tile_matrix"])
            = AskedMax(call.metadata) - AskedMin(call.metadata) + 1

\* C5: every row of gpkg_tile_matrix with zoom_level z has matrix_width =
\* matrix_height = 2^z and tile_width = tile_height = 256, and an update
\* with minzoom 0 and maxzoom 2 leaves exactly the three rows of zoom 0, 1
\* and 2, of dimensions 1, 2 and 4.
C5_MatrixIsPowerOfTwo ==
    /\ \A r \in RowsOf("gpkg_tile_matrix") :
          /\ r.matrix_width = 2 ^ r.zoom_level
          /\ r.matrix_height = 2 ^ r.zoom_level
          /\ r.tile_width = 256
          /\ r.tile_height = 256
    /\ (call.op = "update" /\ Done(call) /\ call.metadata = TestMetadata)
       => /\ BagCardinality(rows["gpkg_tile_matrix"]) = 3
          /\ {<<r.zoom_level, r.matrix_width, r.matrix_height>> :
                 r \in RowsOf("gpkg_tile_matrix")}
               = {<<0, 1, 1>>, <<1, 2, 2>>, <<2, 4, 4>>}

\* C5 witness: the update of the test (minzoom 0, maxzoom 2) has resolved
\* and the table holds a row of zoom 2.
C5_Witness ==
    /\ call.op = "update"
    /\ Done(call)
    /\ call.metadata = TestMetadata
    /\ \E r \in RowsOf("gpkg_tile_matrix") : r.zoom_level = 2

\* the values the caller asked for, with the defaults for what it omitted
AskedName(metadata) == IF metadata.name = NoName THEN "tiles" ELSE metadata.name

AskedDescription(metadata) ==
    IF metadata.description = NoName THEN "OGC GeoPackage"
    ELSE metadata.description

AskedMeters(metadata) ==
    bboxToMeters(IF metadata.bounds = NoBounds THEN <<-180, -85, 180, 85>>
                 ELSE metadata.bounds)

\* C6: after two updates with different options, gpkg_contents and
\* gpkg_tile_matrix_set hold one row each, with the table_name, description
\* and min_x, min_y, max_x, max_y derived from the second call's options.
C6_SecondUpdateWins ==
    (/\ last.op = "update"
     /\ Done(last)
     /\ call.op = "update"
     /\ Done(call)
     /\ last.metadata # call.metadata)
    => LET meters == AskedMeters(call.metadata)
       IN  /\ BagCardinality(rows["gpkg_contents"]) = 1
           /\ BagCardinality(rows["gpkg_tile_matrix_set"]) = 1
           /\ \A r \in RowsOf("gpkg_contents") :
                 /\ r.table_name = AskedName(call.metadata)
                 /\ r.description = AskedDescription(call.metadata)
                 /\ <<r.min_x, r.min_y, r.max_x, r.max_y>> = meters
           /\ \A r \in RowsOf("gpkg_tile_matrix_set") :
                 /\ r.table_name = AskedName(call.metadata)
                 /\ <<r.min_x, r.min_y, r.max_x, r.max_y>> = meters

\* what findOne(t) can resolve to over a given tiles table
FindOneResults(bag, t) ==
    IF Matching(bag, t) = {} THEN {Undefined}
    ELSE {Buffer(r.tile_data) : r \in Matching(bag, t)}

\* C7: no step of update() changes the rows of tiles, nor what findOne
\* resolves to for any triple.
C7_UpdateKeepsTiles ==
    [][(call.op = "update" /\ call'.op = "update")
         => /\ rows'["tiles"] = rows["tiles"]
            /\ \A t \in Tiles :
                  FindOneResults(rows'["tiles"], t)
                    = FindOneResults(rows["tiles"], t)]_vars

\* C7 witness: an update has resolved over a tiles table that holds rows.
C7_Witness ==
    /\ call.op = "update"
    /\ Done(call)
    /\ rows["tiles"] # EmptyBag

\* gpkg_spatial_ref_sys holds four rows, of srs_id -1, 0, 1 and 2
FourSrs ==
    /\ BagCardinality(rows["gpkg_spatial_ref_sys"]) = 4
    /\ {r.srs_id : r \in RowsOf("gpkg_spatial_ref_sys")} = {-1, 0, 1, 2}

\* C8: after every completed update gpkg_spatial_ref_sys holds exactly four
\* rows, of srs_id -1, 0, 1 and 2; the calls between two updates leave it
\* so.
C8_FourSrsRows ==
    /\ (call.op = "update" /\ Done(call)) => FourSrs
    /\ (last.op = "update" /\ Done(last) /\ call.op # "update") => FourSrs
    /\ (call.op # "update")
       => (rows["gpkg_spatial_ref_sys"] = EmptyBag \/ FourSrs)

\* C8 witness: a second update, with other options, has resolved.
C8_Witness ==
    /\ last.op = "update"
    /\ Done(last)
    /\ call.op = "update"
    /\ Done(call)
    /\ last.metadata # call.metadata
    /\ FourSrs

\* the INSERT of save() reported an error
InsertErrored(c) == <<"body", 1>> \in c.errs

\* C9 as stated: save() resolves true when its INSERT succeeded and false
\* when it reported an error.
C9_SaveReportsInsertError ==
    (call.op = "save" /\ Done(call))
    => (call.result = Bool(TRUE) <=> ~InsertErrored(call))

\* C9 amended: save() resolves true whether or not its INSERT reported an
\* error; the error is logged and not raised.
C9_SaveResolvesTrue ==
    (call.op = "save" /\ call.phase \in {"done", "rejected", "pending"})
    => (Done(call) /\ call.result = Bool(TRUE))

\* C9 witness: a save whose INSERT reported an error has resolved true.
C9_Witness ==
    /\ call.op = "save"
    /\ Done(call)
    /\ InsertErrored(call)
    /\ call.result = Bool(TRUE)

\* the statements a call issues when none is skipped
Expected(c) == (IF c.built THEN Len(tables) ELSE 0) + Len(Body(c))

AskedBounds(metadata) ==
    IF metadata.bounds = NoBounds THEN <<-180, -85, 180, 85>>
    ELSE metadata.bounds

\* C11: update(options) resolves to an object of the seven fields name,
\* description, bounds, boundsMeters, lastChange, minzoom and maxzoom; name,
\* description, bounds, minzoom and maxzoom are the supplied option or the
\* default ("tiles", "OGC GeoPackage", [-180, -85, 180, 85], 0, 19),
\* boundsMeters is the conversion of the resolved bounds, and the same
\* name, description and extent are in gpkg_contents and
\* gpkg_tile_matrix_set.
C11_UpdateResolvesSevenFields ==
    (call.op = "update" /\ Done(call))
    => LET m == call.result.meta
       IN  /\ call.result.type = "metadata"
           /\ m.name = AskedName(call.metadata)
           /\ m.description = AskedDescription(call.metadata)
           /\ m.maxzoom = AskedMax(call.metadata)
           /\ m.boundsMeters = AskedMeters(call.metadata)
           /\ \A r \in RowsOf("gpkg_contents") :
                 /\ r.table_name = m.name
                 /\ r.description = m.description
                 /\ <<r.min_x, r.min_y, r.max_x, r.max_y>> = m.boundsMeters
           /\ \A r \in RowsOf("gpkg_tile_matrix_set") :
                 /\ r.table_name = m.name
                 /\ <<r.min_x, r.min_y, r.max_x, r.max_y>> = m.boundsMeters
           /\ DOMAIN m = {"name", "description", "bounds", "boundsMeters",
                          "lastChange", "minzoom", "maxzoom"}
           /\ m.bounds = AskedBounds(call.metadata)
           /\ m.minzoom = AskedMin(call.metadata)

\* C12: save never overwrites. The step that completes save([x, y, z], b)
\* adds one row (x, y, z, b) to tiles and changes no other row, so after k
\* saves of one triple, and no delete, the table holds k rows of that
\* triple; and a findOne of a triple that has rows resolves to the payload
\* of one of them.
C12_SaveNeverOverwrites ==
    /\ []((call.op = "save" /\ Done(call))
            => Count(rows["tiles"], call.tile) = call.had + 1)
    /\ []((call.op = "findOne" /\ Done(call) /\ call.had >= 1)
            => /\ call.result.type = "buffer"
               /\ \E r \in Matching(rows["tiles"], call.tile) :
                     call.result.data = r.tile_data)
    /\ [][(call.op = "save" /\ call.phase = "body" /\ Done(call'))
            => rows'["tiles"]
                 = Plus(rows["tiles"],
                        TileRow(call.tile[1], call.tile[2], call.tile[3],
                                call.image))]_vars

\* C12 witness: a second save of a triple has resolved, with another
\* payload than the row the table already held, and both rows are there.
C12_Witness ==
    /\ call.op = "save"
    /\ Done(call)
    /\ call.had = 1
    /\ Count(rows["tiles"], call.tile) = 2
    /\ \E r \in Matching(rows["tiles"], call.tile) :
          r.tile_data # call.image

\* C13: delete([x, y, z]) resolves to true whether or not a row matches; its
\* step removes the rows of that triple and no other row of tiles, and
\* changes no row of the four metadata tables (nor, once the schema check
\* has run, which tables exist).
C13_DeleteRemovesOnlyItsTriple ==
    /\ []((call.op = "delete" /\ Done(call))
            => /\ call.result = Bool(TRUE)
               /\ Count(rows["tiles"], call.tile) = 0)
    /\ [][(call.op = "delete" /\ call'.op = "delete")
            => /\ Without(rows'["tiles"], call.tile)
                    = Without(rows["tiles"], call.tile)
               /\ \A t \in AllTables \ {"tiles"} : rows'[t] = rows[t]
               /\ table_ => exists' = exists]_vars

\* C13 witness: a delete of a triple that had a row has resolved, a row of
\* another triple is still in tiles and the metadata tables hold rows.
C13_Witness ==
    /\ call.op = "delete"
    /\ Done(call)
    /\ call.had >= 1
    /\ call.result = Bool(TRUE)
    /\ rows["tiles"] # EmptyBag
    /\ rows["gpkg_contents"] # EmptyBag

\* C14: in tables(), _table becomes true only at the completion of the
\* fifth CREATE TABLE, the five having been issued one after the other in
\* the order gpkg_contents, gpkg_spatial_ref_sys, gpkg_tile_matrix,
\* gpkg_tile_matrix_set, tiles; it becomes true also when some of them
\* reported an error; and once true it is never false again.
C14_FlagAfterFiveCreates ==
    /\ [](call.phase = "tables"
            => /\ InFlight(call)
                    = Stmt("create", TableNames[call.idx], <<>>, "runSQL")
               /\ call.issued = call.idx)
    /\ []((call.built /\ call.phase \in {"body", "done"}) => table_)
    /\ [][table_ => table_']_vars
    /\ [][(~table_ /\ table_')
            => /\ call.phase = "tables"
               /\ call.idx = Len(tables)
               /\ call.issued = Len(tables)
               /\ call'.phase # "tables"]_vars

\* C14 witness: the flag is set by a schema check one of whose CREATE
\* statements reported an error.
C14_Witness ==
    /\ table_
    /\ call.built
    /\ \E i \in 1..Len(tables) : <<"tables", i>> \in call.errs

\* a row-level statement of the call has been issued
RowLevel(c) == c.phase = "body" \/ (Done(c) /\ c.op # "tables")

\* C15: no INSERT, DELETE or SELECT of update, save, delete or findOne is
\* issued before the five CREATE TABLE statements have completed on the
\* instance, whichever way the statements of overlapping calls interleave,
\* a call started while an earlier tables() is in progress included.
C15_RowsAfterSchema ==
    \A c \in {call, other} :
       RowLevel(c)
       => /\ exists = AllTables
          /\ table_
          /\ c.built => c.issued > Len(tables)

\* C15 witness: a save started while a tables() was in progress has its
\* INSERT in flight, the tables() still being at one of its CREATEs.
C15_Witness ==
    /\ call.op = "tables"
    /\ call.phase = "tables"
    /\ other.op = "save"
    /\ other.built
    /\ other.phase = "body"

\* the position of the DELETE that opens the block of the statement an
\* update has in flight
BlockStart(c) ==
    CHOOSE j \in 1..c.idx :
       /\ Body(c)[j].kind = "delete_all"
       /\ \A k \in (j + 1)..c.idx : Body(c)[k].kind # "delete_all"

\* the blocks of update(), in the order of the code
Blocks ==
    <<"gpkg_spatial_ref_sys", "gpkg_contents", "gpkg_tile_matrix",
      "gpkg_tile_matrix_set">>

BlockOf(table) == CHOOSE k \in 1..Len(Blocks) : Blocks[k] = table

\* what a completed block of an update leaves in its table
BlockDone(c, k) ==
    CASE k = 1 -> FourSrs
      [] k = 2 -> /\ BagCardinality(rows["gpkg_contents"]) = 1
                  /\ \A r \in RowsOf("gpkg_contents") :
                        r.table_name = Resolved(c.metadata).name
      [] k = 3 -> BagCardinality(rows["gpkg_tile_matrix"])
                    = Resolved(c.metadata).maxzoom + 1
      [] k = 4 -> /\ BagCardinality(rows["gpkg_tile_matrix_set"]) = 1
                  /\ \A r \in RowsOf("gpkg_tile_matrix_set") :
                        r.table_name = Resolved(c.metadata).name

\* C16: the statements of one update() are chained one at a time. While a
\* statement is in flight every statement issued before it has completed:
\* the blocks before its own are complete (in the order spatial_ref_sys,
\* contents, tile_matrix, tile_matrix_set), and its table holds exactly the
\* rows of the INSERTs of its block issued so far, the DELETE of the block
\* having emptied it first. The promise resolves at the completion of the
\* last INSERT, that of gpkg_tile_matrix_set.
C16_UpdateChainsStatements ==
    /\ []((call.op = "update" /\ call.phase = "body")
            => LET b == BlockStart(call)
                   t == InFlight(call).table
               IN  /\ call.issued
                        = (IF call.built THEN Len(tables) ELSE 0) + call.idx
                   /\ \A k \in 1..(BlockOf(t) - 1) : BlockDone(call, k)
                   /\ Body(call)[b].table = t
                   /\ call.idx > b
                      => /\ InFlight(call).kind = "insert"
                         /\ BagCardinality(rows[t]) = call.idx - b - 1)
    /\ []((call.op = "update" /\ Done(call))
            => /\ \A k \in 1..Len(Blocks) : BlockDone(call, k)
               /\ call.issued = Expected(call))
    /\ [][(call.op = "update" /\ call.phase = "body" /\ Done(call'))
            => /\ call.idx = Len(Body(call))
               /\ InFlight(call).kind = "insert"
               /\ InFlight(call).table = "gpkg_tile_matrix_set"]_vars

\* C16 witness: a second update has the INSERT of gpkg_tile_matrix_set in
\* flight, its DELETE having removed the row the first update left.
C16_Witness ==
    /\ last.op = "update"
    /\ Done(last)
    /\ call.op = "update"
    /\ call.phase = "body"
    /\ InFlight(call).kind = "insert"
    /\ InFlight(call).table = "gpkg_tile_matrix_set"
    /\ rows["gpkg_tile_matrix_set"] = EmptyBag

\* C17: the schema check runs once per instance: whichever way calls
\* overlap, each of the five CREATE TABLE statements is issued at most once
\* (at most one call runs the schema check), and a call started once
\* tables() has resolved issues no CREATE TABLE.
C17_SchemaCheckOnce ==
    /\ ~(call.built /\ other.built)
    /\ \A c \in {call, other} : c.phase = "tables" => c.built

\* the table_name values in the rows of a table
NamesIn(table) == {r.table_name : r \in RowsOf(table)}

\* two updates with different names have both resolved
BothUpdated ==
    /\ call.op = "update"
    /\ Done(call)
    /\ other.op = "update"
    /\ Done(other)
    /\ Resolved(call.metadata).name # Resolved(other.metadata).name

\* C18: once two update() calls with different names, started without
\* awaiting the first, have both resolved, the metadata is that of a single
\* call: gpkg_contents and gpkg_tile_matrix_set hold exactly one row each,
\* with the same table_name, every row of gpkg_tile_matrix carries that
\* table_name, and gpkg_spatial_ref_sys holds exactly four rows.
C18_OverlappingUpdatesAgree ==
    BothUpdated
    => /\ BagCardinality(rows["gpkg_contents"]) = 1
       /\ BagCardinality(rows["gpkg_tile_matrix_set"]) = 1
       /\ NamesIn("gpkg_tile_matrix_set") = NamesIn("gpkg_contents")
       /\ NamesIn("gpkg_tile_matrix") = NamesIn("gpkg_contents")
       /\ BagCardinality(rows["gpkg_spatial_ref_sys"]) = 4

\* C18 as the code has it: once both have resolved gpkg_spatial_ref_sys
\* holds exactly its four rows, but gpkg_contents and gpkg_tile_matrix_set
\* hold one or two rows each and gpkg_tile_matrix rows of one or both
\* names; every table_name is that of one of the two calls.
C18_OverlappingUpdatesMix ==
    BothUpdated
    => LET names == {Resolved(call.metadata).name,
                     Resolved(other.metadata).name}
       IN  /\ FourSrs
           /\ BagCardinality(rows["gpkg_contents"]) \in 1..2
           /\ BagCardinality(rows["gpkg_tile_matrix_set"]) \in 1..2
           /\ rows["gpkg_tile_matrix"] # EmptyBag
           /\ NamesIn("gpkg_contents") \subseteq names
           /\ NamesIn("gpkg_tile_matrix_set") \subseteq names
           /\ NamesIn("gpkg_tile_matrix") \subseteq names

\* C18 witness: both updates have resolved and gpkg_contents holds a row of
\* each name.
C18_Witness ==
    /\ BothUpdated
    /\ BagCardinality(rows["gpkg_contents"]) = 2
    /\ NamesIn("gpkg_contents")
         = {Resolved(call.metadata).name, Resolved(other.metadata).name}

============================================================================
